---- MODULE Spec2Model ----
(***************************************************************************)
(* A model of py-genl's schema-driven netlink attribute codec              *)
(* (genl/nlattr.py, genl/netlink.py).                                      *)
(*                                                                         *)
(* Python values are tagged records [k, v]:                                *)
(*   int   v = the integer              str   v = sequence of code points  *)
(*   bytes v = sequence of 0..255       list  v = sequence of values       *)
(*   dict  v = sequence of [key, val] in insertion order (keys are str     *)
(*             payloads, i.e. sequences of code points)                    *)
(*   NlAttrSet  as dict, plus the name_mapping of the schema               *)
(*   none  the value None                                                  *)
(* A call returns a result record: err = "" and val = the returned value,  *)
(* or err = the class of the exception that left the call.                 *)
(***************************************************************************)
EXTENDS Integers, Sequences, FiniteSets, TLC

VARIABLES byteorder, schema, call, ret, prev

vars == <<byteorder, schema, call, ret, prev>>

----------------------------------------------------------------------------
(* Python values and call results *)

None == [k |-> "none", v |-> <<>>]

PyInt(n) == [k |-> "int", v |-> n]

PyStr(s) == [k |-> "str", v |-> s]

PyBytes(b) == [k |-> "bytes", v |-> b]

PyList(l) == [k |-> "list", v |-> l]

PyDict(items) == [k |-> "dict", v |-> items]

PyBool(b) == [k |-> "bool", v |-> b]

Item(key, val) == [key |-> key, val |-> val]

\* A normal return.  built counts the child build invocations made by an
\* attribute-set build in its own scope before it returned or raised.
Ok(val) == [err |-> "", msg |-> "", attr |-> <<>>, built |-> 0, val |-> val]

\* An exception of class cls leaving the call.
Raise(cls, msg) == [err |-> cls, msg |-> msg, attr |-> <<>>, built |-> 0, val |-> None]

IsMapping(x) == x.k \in {"dict", "NlAttrSet"}

\* bool(x)
Truthy(x) ==
    CASE x.k = "none" -> FALSE
      [] x.k = "bool" -> x.v
      [] x.k = "int" -> x.v # 0
      [] OTHER -> Len(x.v) > 0

\* Insertion-ordered dict helpers (d is a sequence of [key, val]).
DictKeys(d) == [i \in 1..Len(d) |-> d[i].key]

DictHas(d, key) == \E i \in 1..Len(d) : d[i].key = key

DictGet(d, key) == d[CHOOSE i \in 1..Len(d) : d[i].key = key].val

\* A mapping that does not keep insertion order (new keys go to the front):
\* the round trip on bytes must tell it from Python's dict.
DictSetFront(d, key, val) ==
    IF DictHas(d, key)
    THEN [i \in 1..Len(d) |-> IF d[i].key = key THEN Item(key, val) ELSE d[i]]
    ELSE <<Item(key, val)>> \o d

\* d[key] = val: an existing key keeps its position, a new key is appended.
DictSet(d, key, val) ==
    IF DictHas(d, key)
    THEN [i \in 1..Len(d) |-> IF d[i].key = key THEN Item(key, val) ELSE d[i]]
    ELSE Append(d, Item(key, val))

\* Python slice s[a:b] for 0 <= a (0-based, end exclusive, clamped).
Slice(s, a, b) == SubSeq(s, a + 1, IF b < Len(s) THEN b ELSE Len(s))

Zeros(n) == [i \in 1..n |-> 0]

RECURSIVE Concat(_)
Concat(ss) == IF Len(ss) = 0 THEN <<>> ELSE Head(ss) \o Concat(Tail(ss))

----------------------------------------------------------------------------
(* genl/netlink.py: wire primitives *)

NLA_HDRLEN == 4

align(size) == ((size + 3) \div 4) * 4

\* No fill bytes at all: the layout property must tell it from pad.
pad_nothing(data) == data

pad(data) == data \o Zeros(align(Len(data)) - Len(data))

\* One unsigned 16-bit field in host byte order.
U16Bytes(n) ==
    IF byteorder = "little" THEN <<n % 256, n \div 256>> ELSE <<n \div 256, n % 256>>

U16Value(b) ==
    IF byteorder = "little" THEN b[1] + 256 * b[2] ELSE 256 * b[1] + b[2]

\* struct.pack("@HH", length, attr_id)
pack_HH(length, attr_id) ==
    IF length \in 0..65535 /\ attr_id \in 0..65535
    THEN Ok(U16Bytes(length) \o U16Bytes(attr_id))
    ELSE Raise("struct.error", "H format requires 0 <= number <= 65535")

GNLAttribute(length, atype, data) == [length |-> length, atype |-> atype, data |-> data]

RECURSIVE pga_loop(_, _, _)
pga_loop(data, index, attributes) ==
    IF ~(index < Len(data)) THEN Ok(attributes)
    ELSE LET hdr == Slice(data, index, index + NLA_HDRLEN) IN
         IF Len(hdr) # NLA_HDRLEN
         THEN Raise("struct.error", "unpack requires a buffer of 4 bytes")
         ELSE LET nla_len == U16Value(SubSeq(hdr, 1, 2))
                  nla_type == U16Value(SubSeq(hdr, 3, 4))
                  nla_data == Slice(data, index + align(NLA_HDRLEN), index + nla_len)
              IN  IF nla_len = 0
                  THEN Raise("AssertionError", "assert nla_len")
                  ELSE pga_loop(data, index + align(nla_len),
                                Append(attributes, GNLAttribute(nla_len, nla_type, nla_data)))

parse_generic_attributes(data) == pga_loop(data, 0, <<>>)

----------------------------------------------------------------------------
(* struct.pack / struct.unpack for the integer formats of int_type_to_fmt *)

RECURSIVE LEBytes(_, _)
\* The w low-order base-256 digits of n >= 0, least significant first.
LEBytes(n, w) == IF w = 0 THEN <<>> ELSE <<n % 256>> \o LEBytes(n \div 256, w - 1)

RECURSIVE HighPart(_, _)
\* n \div 256^w, for n >= 0.
HighPart(n, w) == IF w = 0 THEN n ELSE HighPart(n \div 256, w - 1)

Max(S) == CHOOSE x \in S : \A y \in S : y <= x

RECURSIVE LEValue(_)
LEValue(b) == IF Len(b) = 0 THEN 0 ELSE Head(b) + 256 * LEValue(Tail(b))

Reverse(s) == [i \in 1..Len(s) |-> s[Len(s) + 1 - i]]

\* Between host order and least-significant-first order (an involution).
HostOrder(b) == IF byteorder = "little" THEN b ELSE Reverse(b)

int_type_to_fmt ==
    [u8 |-> "=B", u16 |-> "=H", s16 |-> "=h", u32 |-> "=I", u64 |-> "=Q"]

struct_calcsize(fmt) ==
    CASE fmt = "=B" -> 1
      [] fmt = "=H" -> 2
      [] fmt = "=h" -> 2
      [] fmt = "=I" -> 4
      [] fmt = "=Q" -> 8

\* An int of 2^31 or more, given by its base-256 digits, least significant
\* first, the last one not 0.
PyWide(digits) == [k |-> "wide", v |-> digits]

\* A pack that keeps the low-order bytes of any int: the range property of
\* the integer codecs must tell it from struct.pack.
struct_pack_wrapping(fmt, val) ==
    LET size == struct_calcsize(fmt) IN
    IF val.k = "wide" THEN Ok(HostOrder(SubSeq(val.v \o Zeros(size), 1, size)))
    ELSE IF val.k # "int" THEN Raise("struct.error", "required argument is not an integer")
    ELSE Ok(HostOrder(LEBytes(IF val.v < 0 THEN val.v + 65536 ELSE val.v, size)))

\* struct.pack(fmt, val): struct.error when val is no integer or is out of
\* the range of the format.
struct_pack(fmt, val) ==
    LET size == struct_calcsize(fmt) IN
    IF val.k = "wide"
    THEN IF fmt = "=h" \/ Len(val.v) > size
         THEN Raise("struct.error", "argument out of range")
         ELSE Ok(HostOrder(val.v \o Zeros(size - Len(val.v))))
    ELSE IF val.k # "int" THEN Raise("struct.error", "required argument is not an integer")
    ELSE IF fmt = "=h"
         THEN IF val.v < -32768 \/ val.v > 32767
              THEN Raise("struct.error", "short format requires -32768 <= number <= 32767")
              ELSE Ok(HostOrder(LEBytes(IF val.v < 0 THEN val.v + 65536 ELSE val.v, size)))
         ELSE IF val.v < 0 \/ HighPart(val.v, size) # 0
              THEN Raise("struct.error", "argument out of range")
              ELSE Ok(HostOrder(LEBytes(val.v, size)))

\* An unpack that reads every format as unsigned: the round trip on values
\* must tell it from struct.unpack.
struct_unpack_unsigned(fmt, data) ==
    IF Len(data) # struct_calcsize(fmt)
    THEN Raise("struct.error", "unpack requires a buffer of the format size")
    ELSE Ok(PyInt(LEValue(HostOrder(data))))

\* struct.unpack(fmt, data)[0]
struct_unpack(fmt, data) ==
    IF Len(data) # struct_calcsize(fmt)
    THEN Raise("struct.error", "unpack requires a buffer of the format size")
    ELSE LET d == HostOrder(data)
             top == Max({0} \cup {i \in 1..Len(d) : d[i] # 0})
         IN  IF top > 4 \/ (top = 4 /\ d[4] >= 128)
             THEN Ok(PyWide(SubSeq(d, 1, top)))
             ELSE LET n == LEValue(SubSeq(d, 1, top)) IN
                  Ok(PyInt(IF fmt = "=h" /\ n > 32767 THEN n - 65536 ELSE n))

----------------------------------------------------------------------------
(* genl/nlattr.py: leaf codecs *)

NlAttrSchemaInt_build(self, val) == struct_pack(self.fmt, val)

NlAttrSchemaInt_parse(self, data) == struct_unpack(self.fmt, data)

\* val.encode("ascii") + b'\0'
NlAttrSchemaStr_build(self, val) ==
    IF val.k # "str" THEN Raise("AttributeError", "object has no attribute 'encode'")
    ELSE IF \E i \in 1..Len(val.v) : val.v[i] > 127
         THEN Raise("UnicodeEncodeError", "'ascii' codec can't encode character")
         ELSE Ok(val.v \o <<0>>)

\* data.decode(), then one trailing NUL stripped; s[-1] of the empty string
\* raises IndexError.
NlAttrSchemaStr_parse(self, data) ==
    IF \E i \in 1..Len(data) : data[i] > 127
    THEN Raise("UnicodeDecodeError", "'utf-8' codec can't decode byte")
    ELSE IF Len(data) = 0 THEN Raise("IndexError", "string index out of range")
    ELSE IF data[Len(data)] = 0 THEN Ok(PyStr(SubSeq(data, 1, Len(data) - 1)))
    ELSE Ok(PyStr(data))

\* bytes(data)
NlAttrSchemaBytes_build(self, data) ==
    CASE data.k = "bytes" -> Ok(data.v)
      [] data.k = "int" ->
            IF data.v < 0 THEN Raise("ValueError", "negative count")
            ELSE Ok(Zeros(data.v))
      [] data.k = "list" ->
            IF \E i \in 1..Len(data.v) : data.v[i].k # "int"
            THEN Raise("TypeError", "object cannot be interpreted as an integer")
            ELSE IF \E i \in 1..Len(data.v) : data.v[i].v \notin 0..255
                 THEN Raise("ValueError", "bytes must be in range(0, 256)")
                 ELSE Ok([i \in 1..Len(data.v) |-> data.v[i].v])
      [] data.k = "str" -> Raise("TypeError", "string argument without an encoding")
      [] IsMapping(data) ->
            IF Len(data.v) = 0 THEN Ok(<<>>)
            ELSE Raise("TypeError", "'str' object cannot be interpreted as an integer")
      [] OTHER -> Raise("TypeError", "cannot convert 'NoneType' object to bytes")

NlAttrSchemaBytes_parse(self, data) == Ok(PyBytes(data))

\* The elements that "for val in x" yields.
PyIter(x) ==
    CASE x.k = "list" -> Ok(x.v)
      [] x.k = "bytes" -> Ok([i \in 1..Len(x.v) |-> PyInt(x.v[i])])
      [] x.k = "str" -> Ok([i \in 1..Len(x.v) |-> PyStr(<<x.v[i]>>)])
      [] IsMapping(x) -> Ok([i \in 1..Len(x.v) |-> PyStr(x.v[i].key)])
      [] OTHER -> Raise("TypeError", "object is not iterable")

----------------------------------------------------------------------------
(* genl/nlattr.py: collection codecs and the attribute-set codec *)

NlAttrSet(values, name_mapping) ==
    [k |-> "NlAttrSet", v |-> values, name_mapping |-> name_mapping]

\* NlAttrSet.__getitem__
NlAttrSet_getitem(self, key) ==
    IF DictHas(self.v, key) THEN Ok(DictGet(self.v, key)) ELSE Raise("KeyError", "key")

\* NlAttrSet.__iter__
NlAttrSet_iter(self) == DictKeys(self.v)

\* NlAttrSet.__len__
NlAttrSet_len(self) == Len(self.v)

\* NlAttrSet.__getattr__, the hook Python calls for a name that the object
\* and its classes do not define.
NlAttrSet_getattr(self, name) ==
    IF DictHas(self.name_mapping, name)
    THEN NlAttrSet_getitem(self, DictGet(self.name_mapping, name))
    ELSE Raise("AttributeError", "Don't have")

name_keys == <<107, 101, 121, 115>>     \* "keys"

\* The names that class Mapping defines for every NlAttrSet: keys, items,
\* values, get.
MappingMethods ==
    {name_keys, <<105, 116, 101, 109, 115>>, <<118, 97, 108, 117, 101, 115>>, <<103, 101, 116>>}

\* The names that __init__ sets on the object: _values, name_mapping.
InstanceAttributes ==
    {<<95, 118, 97, 108, 117, 101, 115>>,
     <<110, 97, 109, 101, 95, 109, 97, 112, 112, 105, 110, 103>>}

\* attrs.<name>: the object's own attributes and its classes' come first,
\* __getattr__ is called for the other names only.
getattr(self, name) ==
    IF name \in MappingMethods THEN Ok([k |-> "method", v |-> name])
    ELSE IF name \in InstanceAttributes THEN Ok([k |-> "attribute", v |-> name])
    ELSE NlAttrSet_getattr(self, name)

\* if bool(_attr_values) == bool(kwargs): raise ValueError
build_exclusive(_attr_values, kwargs) ==
    IF Truthy(_attr_values) = Truthy(kwargs)
    THEN Raise("ValueError", "Provide exactly one of _attr_values or kwargs")
    ELSE Ok(None)

RECURSIVE translate_kwargs(_, _, _)
\* {self.name_mapping[k]: v for k, v in kwargs.items()}
translate_kwargs(name_mapping, kwargs, i) ==
    IF i = 0 THEN <<>>
    ELSE DictSet(translate_kwargs(name_mapping, kwargs, i - 1),
                 DictGet(name_mapping, kwargs[i].key), kwargs[i].val)

\* The kwargs branch: short names are checked and translated; otherwise the
\* positional argument is taken as it is.
build_attr_values(self, _attr_values, kwargs) ==
    IF Truthy(kwargs)
    THEN IF \E i \in 1..Len(kwargs.v) : ~DictHas(self.name_mapping, kwargs.v[i].key)
         THEN Raise("ValueError", "Unsupported kwargs")
         ELSE Ok(PyDict(translate_kwargs(self.name_mapping, kwargs.v, Len(kwargs.v))))
    ELSE Ok(_attr_values)

\* set(attr_values): the elements, or TypeError when attr_values cannot be
\* iterated or holds an unhashable element.
build_key_set(attr_values) ==
    LET it == PyIter(attr_values) IN
    IF it.err # "" THEN it
    ELSE IF \E i \in 1..Len(it.val) : it.val[i].k \in {"list", "dict", "NlAttrSet"}
         THEN Raise("TypeError", "unhashable type")
         ELSE Ok(it.val)

\* A validation that forgets the required names: the input-error property
\* must tell it from build's.
build_validate_unknown_only(self, attr_values) ==
    LET keys == build_key_set(attr_values) IN
    IF keys.err # "" THEN keys
    ELSE IF \E i \in 1..Len(keys.val) :
               ~(keys.val[i].k = "str" /\ DictHas(self.subattr_schemata, keys.val[i].v))
         THEN Raise("ValueError", "Unknown attributes")
         ELSE Ok(None)

\* Unknown names, then missing required names.
build_validate(self, attr_values) ==
    LET keys == build_key_set(attr_values) IN
    IF keys.err # "" THEN keys
    ELSE IF \E i \in 1..Len(keys.val) :
               ~(keys.val[i].k = "str" /\ DictHas(self.subattr_schemata, keys.val[i].v))
         THEN Raise("ValueError", "Unknown attributes")
         ELSE IF \E j \in 1..Len(self.required_attrs) :
                    ~\E i \in 1..Len(keys.val) : keys.val[i].v = self.required_attrs[j]
              THEN Raise("ValueError", "Missing required attributes")
              ELSE Ok(None)

\* The entries in the order of the schema's declarations instead of the
\* caller's: the ordering property must tell it from items().
build_items_declared(self, attr_values) ==
    IF IsMapping(attr_values)
    THEN LET given(e) == DictHas(attr_values.v, e.key)
             decl == SelectSeq(self.subattr_schemata, given)
         IN  Ok([i \in 1..Len(decl) |-> Item(decl[i].key, DictGet(attr_values.v, decl[i].key))])
    ELSE Raise("AttributeError", "object has no attribute 'items'")

\* attr_values.items(), in the mapping's iteration order.
build_items(self, attr_values) ==
    IF IsMapping(attr_values) THEN Ok(attr_values.v)
    ELSE Raise("AttributeError", "object has no attribute 'items'")

\* The first child, in schema order, whose id is atype (0 when there is
\* none); self.ids[attr_name] raises KeyError on the way.
find_attr(self, atype) ==
    LET n == Len(self.subattr_schemata)
        hit(i) == DictHas(self.ids, self.subattr_schemata[i].key)
                  /\ DictGet(self.ids, self.subattr_schemata[i].key) = atype
        bad(i) == ~DictHas(self.ids, self.subattr_schemata[i].key)
        stops == {i \in 1..n : hit(i) \/ bad(i)}
        first == CHOOSE i \in stops : \A j \in stops : i <= j
    IN  IF stops = {} THEN Ok(0)
        ELSE IF bad(first) THEN [Raise("KeyError", "ids") EXCEPT !.attr = self.subattr_schemata[first].key]
        ELSE Ok(first)

\* Errors of a child parse: a NetlinkError is re-raised as it is, any
\* other exception becomes a NetlinkError naming the attribute.
wrap_child_error(r, attr_name) ==
    IF r.err = "NetlinkError" THEN r
    ELSE [Raise("NetlinkError", "Got error while parsing attribute") EXCEPT !.attr = attr_name]

\* A parse that returns whatever the walk collected: the required-names
\* property must tell it from parse's last check.
parse_required_unchecked(self, attr_values) ==
    Ok(NlAttrSet(attr_values, self.name_mapping))

\* The check after the walk.
parse_required(self, attr_values) ==
    IF \E j \in 1..Len(self.required_attrs) : ~DictHas(attr_values, self.required_attrs[j])
    THEN Raise("NetlinkError", "Missing required attributes in parsed message")
    ELSE Ok(NlAttrSet(attr_values, self.name_mapping))

RECURSIVE build(_, _), parse(_, _)
RECURSIVE NlAttrSchema_build(_, _, _), build_loop(_, _, _, _)
RECURSIVE NlAttrSchema_walk(_, _), parse_loop(_, _, _, _), NlAttrSchema_parse(_, _)
RECURSIVE parse_loop_reinserting(_, _, _, _)
RECURSIVE NlAttrSchemaList_build(_, _), list_build_loop(_, _, _, _)
RECURSIVE list_build_loop_from_zero(_, _, _, _)
RECURSIVE NlAttrSchemaList_parse(_, _), list_parse_loop(_, _, _, _)
RECURSIVE NlAttrSchemaArray_build(_, _), array_build_loop(_, _, _, _)
RECURSIVE NlAttrSchemaArray_parse(_, _), NlAttrSchemaArray_parse_whole(_, _)

\* for name, val in attr_values.items(): one padded TLV per entry.
build_loop(self, items, i, payload) ==
    IF i > Len(items) THEN [Ok(payload) EXCEPT !.built = Len(items)]
    ELSE LET name == items[i].key
             r == build(DictGet(self.subattr_schemata, name), items[i].val)
         IN  IF r.err # "" THEN [r EXCEPT !.built = i]
             ELSE IF ~DictHas(self.ids, name)
                  THEN [Raise("KeyError", "ids") EXCEPT !.built = i, !.attr = name]
                  ELSE LET h == pack_HH(NLA_HDRLEN + Len(r.val), DictGet(self.ids, name)) IN
                       IF h.err # "" THEN [h EXCEPT !.built = i]
                       ELSE build_loop(self, items, i + 1, payload \o pad(h.val \o r.val))

NlAttrSchema_build(self, _attr_values, kwargs) ==
    LET x == build_exclusive(_attr_values, kwargs) IN
    IF x.err # "" THEN x
    ELSE LET av == build_attr_values(self, _attr_values, kwargs) IN
         IF av.err # "" THEN av
         ELSE LET chk == build_validate(self, av.val) IN
              IF chk.err # "" THEN chk
              ELSE LET items == build_items(self, av.val) IN
                   IF items.err # "" THEN items
                   ELSE build_loop(self, items.val, 1, <<>>)

\* A walk that takes a name out of the mapping before it stores the name
\* again, so that a repeated id moves its entry to the end: the order of
\* the entries must tell it from the walk of the code.
parse_loop_reinserting(self, attrs, i, attr_values) ==
    IF i > Len(attrs) THEN Ok(attr_values)
    ELSE LET f == find_attr(self, attrs[i].atype) IN
         IF f.err # "" THEN f
         ELSE IF f.val = 0 THEN parse_loop_reinserting(self, attrs, i + 1, attr_values)
         ELSE LET attr_name == self.subattr_schemata[f.val].key
                  r == parse(self.subattr_schemata[f.val].val, attrs[i].data)
                  others == SelectSeq(attr_values, LAMBDA it : it.key # attr_name)
              IN  IF r.err # "" THEN wrap_child_error(r, attr_name)
                  ELSE parse_loop_reinserting(self, attrs, i + 1,
                                              Append(others, Item(attr_name, r.val)))

\* The walk of parse: the attribute values collected before the check of
\* the required names.
parse_loop(self, attrs, i, attr_values) ==
    IF i > Len(attrs) THEN Ok(attr_values)
    ELSE LET f == find_attr(self, attrs[i].atype) IN
         IF f.err # "" THEN f
         ELSE IF f.val = 0 THEN parse_loop(self, attrs, i + 1, attr_values)
         ELSE LET attr_name == self.subattr_schemata[f.val].key
                  r == parse(self.subattr_schemata[f.val].val, attrs[i].data)
              IN  IF r.err # "" THEN wrap_child_error(r, attr_name)
                  ELSE parse_loop(self, attrs, i + 1, DictSet(attr_values, attr_name, r.val))

NlAttrSchema_walk(self, data) ==
    LET attrs == parse_generic_attributes(data) IN
    IF attrs.err # "" THEN attrs ELSE parse_loop(self, attrs.val, 1, <<>>)

NlAttrSchema_parse(self, data) ==
    LET w == NlAttrSchema_walk(self, data) IN
    IF w.err # "" THEN w ELSE parse_required(self, w.val)

\* A list build that numbers the TLVs from 0 (attr_id = i): the sequence
\* of type ids must tell it from the loop of the code.
list_build_loop_from_zero(self, elems, i, payload) ==
    IF i > Len(elems) THEN Ok(payload)
    ELSE LET r == build(self.subelem_schema, elems[i]) IN
         IF r.err # "" THEN r
         ELSE LET h == pack_HH(NLA_HDRLEN + Len(r.val), i - 1) IN
              IF h.err # "" THEN h
              ELSE list_build_loop_from_zero(self, elems, i + 1, payload \o pad(h.val \o r.val))

\* for i, val in enumerate(attr_values): a TLV with attr_id = i + 1.
list_build_loop(self, elems, i, payload) ==
    IF i > Len(elems) THEN Ok(payload)
    ELSE LET r == build(self.subelem_schema, elems[i]) IN
         IF r.err # "" THEN r
         ELSE LET h == pack_HH(NLA_HDRLEN + Len(r.val), (i - 1) + 1) IN
              IF h.err # "" THEN h
              ELSE list_build_loop(self, elems, i + 1, payload \o pad(h.val \o r.val))

NlAttrSchemaList_build(self, attr_values) ==
    LET it == PyIter(attr_values) IN
    IF it.err # "" THEN it ELSE list_build_loop(self, it.val, 1, <<>>)

\* ret[attr.atype - 1] = ...: index -1 is the last position, and any index
\* outside the list raises IndexError.
list_parse_loop(self, attrs, i, retv) ==
    IF i > Len(attrs) THEN Ok(PyList(retv))
    ELSE LET r == parse(self.subelem_schema, attrs[i].data)
             ix == attrs[i].atype - 1
             pos == IF ix < 0 THEN Len(retv) + ix + 1 ELSE ix + 1
         IN  IF r.err # "" THEN r
             ELSE IF pos \notin 1..Len(retv)
                  THEN Raise("IndexError", "list assignment index out of range")
                  ELSE list_parse_loop(self, attrs, i + 1, [retv EXCEPT ![pos] = r.val])

NlAttrSchemaList_parse(self, data) ==
    LET attrs == parse_generic_attributes(data) IN
    IF attrs.err # "" THEN attrs
    ELSE IF Len(attrs.val) = 0 THEN Ok(PyList(<<>>))
    ELSE LET n == Max({attrs.val[i].atype : i \in 1..Len(attrs.val)}) IN
         list_parse_loop(self, attrs.val, 1, [i \in 1..n |-> None])

array_build_loop(self, elems, i, payload) ==
    IF i > Len(elems) THEN Ok(payload)
    ELSE LET r == build(self.subelem_schema, elems[i]) IN
         IF r.err # "" THEN r
         ELSE array_build_loop(self, elems, i + 1, payload \o r.val)

NlAttrSchemaArray_build(self, attr_values) ==
    LET it == PyIter(attr_values) IN
    IF it.err # "" THEN it ELSE array_build_loop(self, it.val, 1, <<>>)

\* An array parse that stops at the last whole element (while len(data) >=
\* elem_size): the element count and the length check must tell it from
\* the loop of the code.
NlAttrSchemaArray_parse_whole(self, data) ==
    LET elem_size == self.subelem_schema.size IN
    IF Len(data) < elem_size THEN Ok(PyList(<<>>))
    ELSE LET r == parse(self.subelem_schema, Slice(data, 0, elem_size)) IN
         IF r.err # "" THEN r
         ELSE LET rest == NlAttrSchemaArray_parse_whole(self, Slice(data, elem_size, Len(data))) IN
              IF rest.err # "" THEN rest
              ELSE Ok(PyList(<<r.val>> \o rest.val.v))

\* while data: one element of elem_size bytes at a time; returns the list
\* of parsed elements as a sequence inside a result.
NlAttrSchemaArray_parse(self, data) ==
    LET elem_size == self.subelem_schema.size IN
    IF Len(data) = 0 THEN Ok(PyList(<<>>))
    ELSE LET r == parse(self.subelem_schema, Slice(data, 0, elem_size)) IN
         IF r.err # "" THEN r
         ELSE LET rest == NlAttrSchemaArray_parse(self, Slice(data, elem_size, Len(data))) IN
              IF rest.err # "" THEN rest
              ELSE Ok(PyList(<<r.val>> \o rest.val.v))

\* schema.build(val) of a child codec, by class.
build(self, val) ==
    CASE self.cls = "NlAttrSchemaInt" -> NlAttrSchemaInt_build(self, val)
      [] self.cls = "NlAttrSchemaStr" -> NlAttrSchemaStr_build(self, val)
      [] self.cls = "NlAttrSchemaBytes" -> NlAttrSchemaBytes_build(self, val)
      [] self.cls = "NlAttrSchemaList" -> NlAttrSchemaList_build(self, val)
      [] self.cls = "NlAttrSchemaArray" -> NlAttrSchemaArray_build(self, val)
      [] self.cls = "NlAttrSchema" -> NlAttrSchema_build(self, val, PyDict(<<>>))

\* schema.parse(data) of a child codec, by class.
parse(self, data) ==
    CASE self.cls = "NlAttrSchemaInt" -> NlAttrSchemaInt_parse(self, data)
      [] self.cls = "NlAttrSchemaStr" -> NlAttrSchemaStr_parse(self, data)
      [] self.cls = "NlAttrSchemaBytes" -> NlAttrSchemaBytes_parse(self, data)
      [] self.cls = "NlAttrSchemaList" -> NlAttrSchemaList_parse(self, data)
      [] self.cls = "NlAttrSchemaArray" -> NlAttrSchemaArray_parse(self, data)
      [] self.cls = "NlAttrSchema" -> NlAttrSchema_parse(self, data)

----------------------------------------------------------------------------
(* genl/nlattr.py: the schema compiler.                                    *)
(* A description is a tagged node: SStr (a type name), SList (a list of    *)
(* field dictionaries) or SDict (one field dictionary, a record with the   *)
(* keys name and type and optionally python_name, required, subelem_type). *)

SStr(s) == [t |-> "str", s |-> s]

SList(l) == [t |-> "list", l |-> l]

SDict(d) == [t |-> "dict", d |-> d]

\* The classes registered by @schema_class, by type name.
schema_classes ==
    [n \in DOMAIN int_type_to_fmt |-> "NlAttrSchemaInt"]
        @@ ("str" :> "NlAttrSchemaStr") @@ ("bytes" :> "NlAttrSchemaBytes")
        @@ ("list" :> "NlAttrSchemaList") @@ ("array" :> "NlAttrSchemaArray")

get_schema_class(spec) ==
    IF spec.t = "list" THEN Ok("NlAttrSchema")
    ELSE IF spec.d.type.t = "list" THEN Ok("NlAttrSchema")
    ELSE IF spec.d.type.s \in DOMAIN schema_classes THEN Ok(schema_classes[spec.d.type.s])
    ELSE Raise("KeyError", "schema_classes")

RECURSIVE LongestCommonPrefix(_, _)
\* The longest k <= n such that all the strings agree on their first k
\* characters.
LongestCommonPrefix(strs, n) ==
    IF n = 0 THEN 0
    ELSE IF \A i \in 1..Len(strs) :
               Len(strs[i]) >= n /\ SubSeq(strs[i], 1, n) = SubSeq(strs[1], 1, n)
         THEN n
         ELSE LongestCommonPrefix(strs, n - 1)

\* os.path.commonprefix
commonprefix(strs) ==
    IF Len(strs) = 0 THEN <<>>
    ELSE SubSeq(strs[1], 1, LongestCommonPrefix(strs, Len(strs[1])))

UNDERSCORE == 95

\* str.lower() on ASCII
lower(s) == [i \in 1..Len(s) |-> IF s[i] \in 65..90 THEN s[i] + 32 ELSE s[i]]

\* common_prefix of the scope: "_" is appended when it does not end in one.
scope_prefix(fields) ==
    LET cp == commonprefix([i \in 1..Len(fields) |-> fields[i].name]) IN
    IF Len(cp) > 0 /\ cp[Len(cp)] = UNDERSCORE THEN cp ELSE cp \o <<UNDERSCORE>>

\* The short name of a field.
python_name(field_spec, common_prefix) ==
    IF "python_name" \in DOMAIN field_spec THEN field_spec.python_name
    ELSE lower(Slice(field_spec.name, Len(common_prefix), Len(field_spec.name)))

is_required(field_spec) ==
    IF "required" \in DOMAIN field_spec THEN field_spec.required ELSE FALSE

RECURSIVE from_spec(_, _, _), NlAttrSchema_from_spec(_, _), from_spec_loop(_, _, _, _, _)
RECURSIVE NlAttrSchemaCollection_from_spec(_, _, _)

\* for field_spec in spec: compile the field and register it.
from_spec_loop(fields, ids, common_prefix, i, acc) ==
    IF i > Len(fields)
    THEN Ok([cls |-> "NlAttrSchema", subattr_schemata |-> acc.subattr_schemata,
             ids |-> ids, required_attrs |-> acc.required_attrs,
             name_mapping |-> acc.name_mapping])
    ELSE LET field_spec == fields[i]
             schema_cls == get_schema_class(SDict(field_spec))
         IN  IF schema_cls.err # "" THEN schema_cls
             ELSE LET sub == from_spec(schema_cls.val, SDict(field_spec), ids) IN
                  IF sub.err # "" THEN sub
                  ELSE from_spec_loop(fields, ids, common_prefix, i + 1,
                         [subattr_schemata |->
                              DictSet(acc.subattr_schemata, field_spec.name, sub.val),
                          name_mapping |->
                              DictSet(acc.name_mapping,
                                      python_name(field_spec, common_prefix), field_spec.name),
                          required_attrs |->
                              IF is_required(field_spec)
                              THEN Append(acc.required_attrs, field_spec.name)
                              ELSE acc.required_attrs])

NlAttrSchema_from_spec(spec, ids) ==
    LET fields == IF spec.t = "dict" THEN spec.d.type.l ELSE spec.l IN
    from_spec_loop(fields, ids, scope_prefix(fields), 1,
                   [subattr_schemata |-> <<>>, name_mapping |-> <<>>, required_attrs |-> <<>>])

NlAttrSchemaCollection_from_spec(cls, spec, ids) ==
    IF "subelem_type" \notin DOMAIN spec.d THEN Raise("KeyError", "subelem_type")
    ELSE LET subelem_spec == IF spec.d.subelem_type.t = "str"
                             THEN SDict([type |-> spec.d.subelem_type])
                             ELSE spec.d.subelem_type
             subelem_schema_cls == get_schema_class(subelem_spec)
         IN  IF subelem_schema_cls.err # "" THEN subelem_schema_cls
             ELSE LET sub == from_spec(subelem_schema_cls.val, subelem_spec, ids) IN
                  IF sub.err # "" THEN sub
                  ELSE IF cls = "NlAttrSchemaArray" /\ "size" \notin DOMAIN sub.val
                       THEN Raise("ValueError", "Can only build arrays of fixed-size elems")
                       ELSE Ok([cls |-> cls, subelem_schema |-> sub.val, ids |-> ids])

\* cls.from_spec(spec, ids)
from_spec(cls, spec, ids) ==
    CASE cls = "NlAttrSchemaInt" ->
            Ok([cls |-> cls, fmt |-> int_type_to_fmt[spec.d.type.s],
                size |-> struct_calcsize(int_type_to_fmt[spec.d.type.s])])
      [] cls \in {"NlAttrSchemaStr", "NlAttrSchemaBytes"} -> Ok([cls |-> cls])
      [] cls \in {"NlAttrSchemaList", "NlAttrSchemaArray"} ->
            NlAttrSchemaCollection_from_spec(cls, spec, ids)
      [] cls = "NlAttrSchema" -> NlAttrSchema_from_spec(spec, ids)

----------------------------------------------------------------------------
(* The bounded inputs of the model *)

\* Most entries of a value mapping handed to build.
MaxEntries == 2

\* Most top-level TLVs of a buffer handed to parse.
MaxTlvs == 2

\* Most elements of a list or array value, and TLVs of a list payload.
MaxElems == 2

\* Symbolic names, as code points.
K_A == <<75, 95, 65>>      \* "K_A"

K_B == <<75, 95, 66>>      \* "K_B"

K_C == <<75, 95, 67>>      \* "K_C"

Z_Z == <<90, 95, 90>>      \* "Z_Z", declared by no description

zz == <<122, 122>>         \* "zz", a short name of no scope

foo == <<102, 111, 111>>   \* "foo"

\* An attribute id no table of the model assigns.
UnknownId == 99

Field(name, type) == [name |-> name, type |-> SStr(type)]

IdsABC == <<Item(K_A, 1), Item(K_B, 2), Item(K_C, 3)>>

\* The record list of the nested scopes of the descriptions below.
RecordFields == <<Field(K_A, "u8"), Field(K_B, "bytes")>>

\* The (description, id table) pairs that from_spec is called with.
Descriptions ==
    << \* leaves, one of them required
       [spec |-> SList(<<Field(K_A, "u8") @@ [required |-> TRUE],
                         Field(K_B, "str"), Field(K_C, "bytes")>>),
        ids |-> IdsABC],
       \* integers of other widths and an array
       [spec |-> SList(<<Field(K_A, "s16"), Field(K_B, "u32") @@ [python_name |-> name_keys],
                         Field(K_C, "array") @@ [subelem_type |-> SStr("u16")]>>),
        ids |-> IdsABC],
       \* a list of records and a directly nested set
       [spec |-> SList(<<Field(K_A, "u16"),
                         Field(K_B, "list") @@ [subelem_type |-> SList(RecordFields)],
                         [name |-> K_C,
                          type |-> SList(<<Field(K_A, "u8") @@ [required |-> TRUE],
                                           Field(K_C, "str")>>)]>>),
        ids |-> IdsABC],
       \* the description of tests.py test_flag
       [spec |-> SList(<<Field(K_A, "flag") @@ [python_name |-> foo]>>),
        ids |-> <<Item(K_A, 1)>>],
       \* a name the id table lacks
       [spec |-> SList(<<Field(K_A, "u64"), Field(K_B, "u8")>>),
        ids |-> <<Item(K_A, 1)>>],
       \* a nested name the id table lacks
       [spec |-> SList(<<Field(K_A, "u8") @@ [python_name |-> foo],
                         [name |-> K_B, type |-> SList(<<Field(K_C, "u8")>>)]>>),
        ids |-> <<Item(K_A, 1), Item(K_B, 2)>>],
       \* an array of elements without a fixed size
       [spec |-> SList(<<Field(K_A, "array") @@ [subelem_type |-> SStr("str")]>>),
        ids |-> IdsABC],
       \* two siblings with the same id
       [spec |-> SList(<<Field(K_A, "u8"), Field(K_B, "u8")>>),
        ids |-> <<Item(K_A, 1), Item(K_B, 1)>>]
    >>

Prefix(s, n) == SubSeq(s, 1, IF n < Len(s) THEN n ELSE Len(s))

\* All sequences of at most n elements of the set S.
SeqsUpTo(S, n) == UNION {[1..m -> S] : m \in 0..n}

\* Sequences of at most n <<field, sample>> choices, no field chosen twice.
ChoiceSeqs(S, n) ==
    {q \in SeqsUpTo(S, n) : \A i, j \in 1..Len(q) : i # j => q[i][1] # q[j][1]}

RECURSIVE ValueSamples(_)
\* The values a field of codec self is built from: of the declared type
\* first, then values of other types or out of range.
ValueSamples(self) ==
    CASE self.cls = "NlAttrSchemaInt" -> <<PyInt(1), PyInt(300), PyInt(-1), PyStr(<<104>>)>>
      [] self.cls = "NlAttrSchemaStr" ->
            <<PyStr(<<104, 105>>), PyStr(<<>>), PyStr(<<104, 0>>), PyBytes(<<9>>)>>
      [] self.cls = "NlAttrSchemaBytes" ->
            <<PyBytes(<<9>>), PyBytes(<<>>), PyInt(3), PyList(<<PyInt(5), PyInt(6)>>)>>
      [] self.cls = "NlAttrSchemaArray" ->
            [n \in 1..(MaxElems + 1) |-> PyList([i \in 1..(n - 1) |-> PyInt(4 + i)])]
                \o <<PyBytes(<<5, 6>>), PyList(<<PyInt(70000)>>)>>
      [] self.cls = "NlAttrSchemaList" ->
            LET e == Prefix(ValueSamples(self.subelem_schema), 2) IN
            [n \in 1..(MaxElems + 1) |-> PyList([i \in 1..(n - 1) |-> e[2 - (i % 2)]])]
                \o <<PyList(<<e[2]>>)>>
      [] self.cls = "NlAttrSchema" ->
            LET n == Len(self.subattr_schemata)
                first(i) == ValueSamples(self.subattr_schemata[i].val)[1]
                all == [i \in 1..n |-> Item(self.subattr_schemata[i].key, first(i))]
            IN  <<PyDict(all), PyDict(Reverse(all)), PyDict(Prefix(all, 1)),
                  PyDict(Tail(all)), PyDict(<<>>)>>

\* An entry of a positional mapping: field c[1] (one past the last field:
\* the undeclared name) with its sample c[2].
PosEntry(self, c) ==
    IF c[1] > Len(self.subattr_schemata) THEN Item(Z_Z, PyInt(1))
    ELSE Item(self.subattr_schemata[c[1]].key,
              ValueSamples(self.subattr_schemata[c[1]].val)[c[2]])

PosChoices(self) ==
    {<<Len(self.subattr_schemata) + 1, 1>>} \cup
    UNION {{<<i, j>> : j \in 1..Len(ValueSamples(self.subattr_schemata[i].val))} :
           i \in 1..Len(self.subattr_schemata)}

\* An entry of a keyword mapping: short name c[1] of the scope (one past
\* the last: a short name of no scope) with sample c[2] of its field.
KwEntry(self, c) ==
    IF c[1] > Len(self.name_mapping) THEN Item(zz, PyInt(1))
    ELSE Item(self.name_mapping[c[1]].key,
              ValueSamples(DictGet(self.subattr_schemata, self.name_mapping[c[1]].val))[c[2]])

KwChoices(self) ==
    {<<Len(self.name_mapping) + 1, 1>>} \cup
    UNION {{<<i, j>> : j \in 1..Len(ValueSamples(
                 DictGet(self.subattr_schemata, self.name_mapping[i].val)))} :
           i \in 1..Len(self.name_mapping)}

\* The (positional, keyword) argument pairs of the build calls: one form
\* alone (an empty mapping included), and both forms together.
BuildArgs(self) ==
    {[pos |-> PyDict([m \in 1..Len(q) |-> PosEntry(self, q[m])]), kw |-> PyDict(<<>>)] :
        q \in ChoiceSeqs(PosChoices(self), MaxEntries)}
    \cup
    {[pos |-> None, kw |-> PyDict([m \in 1..Len(q) |-> KwEntry(self, q[m])])] :
        q \in ChoiceSeqs(KwChoices(self), MaxEntries)}
    \cup
    {[pos |-> PyDict([m \in 1..n |-> PosEntry(self, <<1, 1>>)]),
      kw |-> PyDict(<<KwEntry(self, <<1, 1>>)>>)] : n \in 0..1}

\* A TLV as it lies on the wire: header, payload, and fill bytes up to the
\* next 4-byte boundary.
TLV(length, atype, payload, fill) ==
    U16Bytes(length) \o U16Bytes(atype) \o payload
        \o [i \in 1..(align(Len(payload)) - Len(payload)) |-> fill]

\* A well-formed TLV around payload.
WireAttr(atype, payload) == TLV(NLA_HDRLEN + Len(payload), atype, payload, 0)

IdOf(self, name) == IF DictHas(self.ids, name) THEN DictGet(self.ids, name) ELSE UnknownId

RECURSIVE WireSamples(_)
\* The payloads a field of codec self is parsed from.
WireSamples(self) ==
    CASE self.cls = "NlAttrSchemaInt" ->
            <<HostOrder(LEBytes(1, self.size)), <<>>>>
                \o (IF self.size <= 2 THEN <<[i \in 1..self.size |-> 255]>> ELSE <<>>)
      [] self.cls = "NlAttrSchemaStr" -> <<<<104, 105, 0>>, <<104>>, <<>>, <<255, 0>>>>
      [] self.cls = "NlAttrSchemaBytes" -> <<<<9>>, <<5, 6, 7>>>>
      [] self.cls = "NlAttrSchemaArray" ->
            <<Concat([i \in 1..MaxElems |->
                         HostOrder(LEBytes(4 + i, self.subelem_schema.size))]),
              <<5, 0, 6>>>>
      [] self.cls = "NlAttrSchemaList" ->
            LET p == WireSamples(self.subelem_schema)[1] IN
            <<Concat([i \in 1..MaxElems |-> WireAttr(i, p)]),
              Concat([i \in 1..MaxElems |-> WireAttr(MaxElems + 1 - i, p)]),
              WireAttr(MaxElems, p), WireAttr(0, p), <<>>>>
      [] self.cls = "NlAttrSchema" ->
            LET n == Len(self.subattr_schemata)
                tlv(i) == WireAttr(IdOf(self, self.subattr_schemata[i].key),
                                   WireSamples(self.subattr_schemata[i].val)[1])
                all == [i \in 1..n |-> tlv(i)]
            IN  <<Concat(all), Concat(Reverse(all)), tlv(1), <<>>>>

\* The pieces the parsed buffers are made of: a well-formed TLV per field
\* and payload sample; then a TLV with non-zero fill bytes, one with an
\* undeclared id, and the malformed ones (length 0, length below the header
\* size, length past the end, no fill bytes, half a header).
WireChunks(self) ==
    LET n == Len(self.subattr_schemata)
        id(i) == IdOf(self, self.subattr_schemata[i].key)
        of(i) == LET ws == WireSamples(self.subattr_schemata[i].val) IN
                 [j \in 1..Len(ws) |-> WireAttr(id(i), ws[j])]
    IN  Concat([i \in 1..n |-> of(i)])
        \o <<TLV(5, id(1), <<1>>, 7),
             WireAttr(UnknownId, <<1>>),
             TLV(0, id(1), <<>>, 0),
             TLV(2, id(1), <<>>, 0),
             TLV(12, UnknownId, <<1>>, 0),
             U16Bytes(5) \o U16Bytes(id(1)) \o <<1>>,
             U16Bytes(4)>>

\* The buffers of the parse calls.
ParseArgs(self) ==
    LET chunks == WireChunks(self) IN
    {Concat([m \in 1..Len(q) |-> chunks[q[m]]]) : q \in SeqsUpTo(1..Len(chunks), MaxTlvs)}

----------------------------------------------------------------------------
(* The state machine: a session that compiles a schema and calls build and *)
(* parse on it.  call and ret are the last call and what it returned or    *)
(* raised; prev is the call before it when the last call took its argument *)
(* from that call's return value.  A compiled codec tree is never written  *)
(* after from_spec and build and parse keep no state, so what a call       *)
(* returns does not depend on the calls made before it: a call on caller-  *)
(* supplied arguments is taken once, on the freshly compiled schema, and   *)
(* may be followed by the calls that feed its result back.                 *)

NoCall == [op |-> "none"]

NoPrev == [call |-> NoCall, ret |-> Ok(None)]

Init ==
    /\ byteorder \in {"little", "big"}
    /\ schema = Raise("NotCompiled", "no schema yet")
    /\ call = NoCall
    /\ ret = Ok(None)
    /\ prev = NoPrev

\* schema = NlAttrSchema.from_spec(spec, ids)
FromSpec ==
    \E i \in 1..Len(Descriptions) :
        LET r == NlAttrSchema_from_spec(Descriptions[i].spec, Descriptions[i].ids) IN
        /\ schema' = r
        /\ call' = [op |-> "from_spec", spec |-> Descriptions[i].spec,
                    ids |-> Descriptions[i].ids]
        /\ ret' = r
        /\ prev' = NoPrev
        /\ UNCHANGED byteorder

\* schema.build(_attr_values) or schema.build(**kwargs)
Build ==
    /\ schema.err = ""
    /\ call.op = "from_spec"
    /\ \E a \in BuildArgs(schema.val) :
        /\ call' = [op |-> "build", _attr_values |-> a.pos, kwargs |-> a.kw]
        /\ ret' = NlAttrSchema_build(schema.val, a.pos, a.kw)
    /\ prev' = NoPrev
    /\ UNCHANGED <<byteorder, schema>>

\* schema.parse(data) of a received buffer
Parse ==
    /\ schema.err = ""
    /\ call.op = "from_spec"
    /\ \E data \in ParseArgs(schema.val) :
        /\ call' = [op |-> "parse", data |-> data, built |-> FALSE]
        /\ ret' = NlAttrSchema_parse(schema.val, data)
    /\ prev' = NoPrev
    /\ UNCHANGED <<byteorder, schema>>

\* schema.parse(schema.build(v))
ParseBuilt ==
    /\ schema.err = ""
    /\ call.op = "build"
    /\ ret.err = ""
    /\ call' = [op |-> "parse", data |-> ret.val, built |-> TRUE]
    /\ ret' = NlAttrSchema_parse(schema.val, ret.val)
    /\ prev' = [call |-> call, ret |-> ret]
    /\ UNCHANGED <<byteorder, schema>>

\* schema.build(schema.parse(b))
BuildParsed ==
    /\ schema.err = ""
    /\ call.op = "parse"
    /\ ret.err = ""
    /\ call' = [op |-> "build", _attr_values |-> ret.val, kwargs |-> PyDict(<<>>)]
    /\ ret' = NlAttrSchema_build(schema.val, ret.val, PyDict(<<>>))
    /\ prev' = [call |-> call, ret |-> ret]
    /\ UNCHANGED <<byteorder, schema>>

Next == FromSpec \/ Build \/ Parse \/ ParseBuilt \/ BuildParsed

Spec == Init /\ [][Next]_vars

----------------------------------------------------------------------------
(* Vocabulary of the properties *)

RECURSIVE PyEq(_, _)
\* Python's a == b: mappings compare as sets of entries, lists and leaves
\* position by position, values of different types are unequal.
PyEq(a, b) ==
    CASE IsMapping(a) /\ IsMapping(b) ->
            /\ \A i \in 1..Len(a.v) : DictHas(b.v, a.v[i].key)
            /\ \A i \in 1..Len(b.v) :
                  DictHas(a.v, b.v[i].key) /\ PyEq(DictGet(a.v, b.v[i].key), b.v[i].val)
      [] a.k = "list" /\ b.k = "list" ->
            Len(a.v) = Len(b.v) /\ \A i \in 1..Len(a.v) : PyEq(a.v[i], b.v[i])
      [] a.k = b.k /\ a.k \in {"int", "str", "bytes", "none"} -> a.v = b.v
      [] OTHER -> FALSE

RECURSIVE WellTyped(_, _)
\* v has the Python type that codec self declares, at every level.
WellTyped(self, v) ==
    CASE self.cls = "NlAttrSchemaInt" -> v.k = "int"
      [] self.cls = "NlAttrSchemaStr" -> v.k = "str"
      [] self.cls = "NlAttrSchemaBytes" -> v.k = "bytes"
      [] self.cls \in {"NlAttrSchemaList", "NlAttrSchemaArray"} ->
            v.k = "list" /\ \A i \in 1..Len(v.v) : WellTyped(self.subelem_schema, v.v[i])
      [] self.cls = "NlAttrSchema" ->
            /\ IsMapping(v)
            /\ \A i \in 1..Len(v.v) :
                  DictHas(self.subattr_schemata, v.v[i].key)
                  => WellTyped(DictGet(self.subattr_schemata, v.v[i].key), v.v[i].val)

RECURSIVE DistinctIds(_)
\* In every attribute-set scope of the codec tree the children that have
\* an id have pairwise distinct ids.
DistinctIds(self) ==
    CASE self.cls = "NlAttrSchema" ->
            /\ \A i, j \in 1..Len(self.subattr_schemata) :
                  (/\ i # j
                   /\ DictHas(self.ids, self.subattr_schemata[i].key)
                   /\ DictHas(self.ids, self.subattr_schemata[j].key))
                  => DictGet(self.ids, self.subattr_schemata[i].key)
                        # DictGet(self.ids, self.subattr_schemata[j].key)
            /\ \A i \in 1..Len(self.subattr_schemata) :
                  DistinctIds(self.subattr_schemata[i].val)
      [] self.cls \in {"NlAttrSchemaList", "NlAttrSchemaArray"} ->
            DistinctIds(self.subelem_schema)
      [] OTHER -> TRUE

\* The value mapping, by symbolic name, that a build call was given.
BuiltFrom(c) ==
    IF Truthy(c.kwargs) THEN build_attr_values(schema.val, c._attr_values, c.kwargs).val
    ELSE c._attr_values

\* The last call is schema.parse(schema.build(v)) and prev is that build.
RoundTripOnValues == call.op = "parse" /\ prev.call.op = "build"

\* The last call is schema.build(schema.parse(b)) and prev is that parse.
RoundTripOnBytes == call.op = "build" /\ prev.call.op = "parse"

RECURSIVE KnownOnly(_, _)
\* No TLV of data, at any level of attribute sets, has an id that the
\* scope it lies in does not declare.
KnownOnly(self, data) ==
    LET attrs == parse_generic_attributes(data) IN
    CASE attrs.err # "" -> TRUE
      [] self.cls = "NlAttrSchema" ->
            \A i \in 1..Len(attrs.val) :
                \E j \in 1..Len(self.subattr_schemata) :
                    /\ IdOf(self, self.subattr_schemata[j].key) = attrs.val[i].atype
                    /\ self.subattr_schemata[j].val.cls \in {"NlAttrSchema", "NlAttrSchemaList"}
                       => KnownOnly(self.subattr_schemata[j].val, attrs.val[i].data)
      [] self.cls = "NlAttrSchemaList" ->
            \A i \in 1..Len(attrs.val) :
                self.subelem_schema.cls \in {"NlAttrSchema", "NlAttrSchemaList"}
                => KnownOnly(self.subelem_schema, attrs.val[i].data)
      [] OTHER -> TRUE

----------------------------------------------------------------------------
(* C1..C10 *)

\* C1 (as claimed): for every compiled schema and every value mapping v
\* that build accepts, parse(build(v)) succeeds and equals v.
C1_RoundTripValues ==
    RoundTripOnValues => ret.err = "" /\ PyEq(ret.val, BuiltFrom(prev.call))

\* C1 (amended): the same, for schemas whose sibling ids are pairwise
\* distinct and mappings whose values have the types the schema declares.
C1_RoundTripTypedValues ==
    (/\ RoundTripOnValues
     /\ DistinctIds(schema.val)
     /\ WellTyped(schema.val, BuiltFrom(prev.call)))
    => ret.err = "" /\ PyEq(ret.val, BuiltFrom(prev.call))

\* C1 witness: a mapping with a non-empty list of records next to a nested
\* set went through build and parse.
C1_Witness ==
    /\ RoundTripOnValues
    /\ DistinctIds(schema.val)
    /\ WellTyped(schema.val, BuiltFrom(prev.call))
    /\ \E i, j \in 1..Len(BuiltFrom(prev.call).v) :
          /\ BuiltFrom(prev.call).v[i].val.k = "list"
          /\ Len(BuiltFrom(prev.call).v[i].val.v) = MaxElems
          /\ IsMapping(BuiltFrom(prev.call).v[i].val.v[1])
          /\ IsMapping(BuiltFrom(prev.call).v[j].val)
    /\ ret.err = ""

\* C2 (as claimed): for every buffer b that parse accepts and that holds no
\* undeclared id, build(parse(b)) returns b.
C2_RoundTripBytes ==
    (RoundTripOnBytes /\ KnownOnly(schema.val, prev.call.data))
    => ret.err = "" /\ ret.val = prev.call.data

\* C2 (amended): for every buffer b that build returned, under a schema
\* whose sibling ids are pairwise distinct, build(parse(b)) returns b.
C2_RoundTripBuiltBytes ==
    (RoundTripOnBytes /\ prev.call.built /\ DistinctIds(schema.val))
    => ret.err = "" /\ ret.val = prev.call.data

\* C2 witness: a built buffer of two TLVs, one of them a list of records,
\* was parsed and built again.
C2_Witness ==
    /\ RoundTripOnBytes
    /\ prev.call.built
    /\ DistinctIds(schema.val)
    /\ Len(prev.ret.val.v) = 2
    /\ \E i \in 1..2 : prev.ret.val.v[i].val.k = "list" /\ Len(prev.ret.val.v[i].val.v) > 0
    /\ ret.err = ""

\* The last call is a build on arguments of the caller.
DirectBuild == call.op = "build" /\ prev.call.op = "none"

\* The fields of kind flag in a description.
FlagFields(spec) ==
    {i \in 1..Len(spec.l) : spec.l[i].type.t = "str" /\ spec.l[i].type.s = "flag"}

\* C3 (as claimed): a description with a flag field compiles, and for the
\* compiled schema presence is the sole signal: build(true) is the 4-byte
\* header alone, build(false) is empty, parse of the header reads true and
\* parse of the empty buffer reads false.
C3_FlagPresence ==
    (call.op = "from_spec" /\ FlagFields(call.spec) # {}) =>
        /\ ret.err = ""
        /\ \A i \in FlagFields(call.spec) :
              LET name == call.spec.l[i].name
                  header == U16Bytes(NLA_HDRLEN) \o U16Bytes(DictGet(call.ids, name))
                  one(b) == PyDict(<<Item(name, PyBool(b))>>)
                  present(r) == r.err = "" /\ DictHas(r.val.v, name)
                                /\ Truthy(DictGet(r.val.v, name))
              IN  /\ NlAttrSchema_build(ret.val, one(TRUE), PyDict(<<>>)).err = ""
                  /\ NlAttrSchema_build(ret.val, one(TRUE), PyDict(<<>>)).val = header
                  /\ NlAttrSchema_build(ret.val, one(FALSE), PyDict(<<>>)).err = ""
                  /\ NlAttrSchema_build(ret.val, one(FALSE), PyDict(<<>>)).val = <<>>
                  /\ present(NlAttrSchema_parse(ret.val, header))
                  /\ NlAttrSchema_parse(ret.val, <<>>).err = ""
                  /\ ~present(NlAttrSchema_parse(ret.val, <<>>))

\* The call was refused by the check that exactly one form is supplied,
\* in the scope of the call itself.
RejectedAsNotExclusive ==
    /\ ret.err = "ValueError"
    /\ ret.msg = "Provide exactly one of _attr_values or kwargs"
    /\ ret.built = 0

\* C4 (as claimed): build is refused by the exactly-one check when both the
\* positional mapping and keyword arguments are supplied and when neither
\* is, and never when exactly one of them is supplied.
C4_ExactlyOne ==
    DirectBuild =>
        (RejectedAsNotExclusive
            <=> ((call._attr_values.k # "none") <=> (Len(call.kwargs.v) > 0)))

\* The symbolic names of a build call's input, where they are defined.
HasUnknownKwarg(c) ==
    \E i \in 1..Len(c.kwargs.v) : ~DictHas(schema.val.name_mapping, c.kwargs.v[i].key)

HasUnknownName(c) ==
    /\ IsMapping(c._attr_values)
    /\ \E i \in 1..Len(c._attr_values.v) :
          ~DictHas(schema.val.subattr_schemata, c._attr_values.v[i].key)

LacksRequired(c) ==
    /\ ~HasUnknownKwarg(c)
    /\ \E j \in 1..Len(schema.val.required_attrs) :
          ~DictHas(BuiltFrom(c).v, schema.val.required_attrs[j])

\* C5: a build whose input has an unknown short name, an unknown symbolic
\* name or lacks a required name raises, returns no bytes, and has invoked
\* no child codec's build.
C5_InputErrorsBeforeBuild ==
    (DirectBuild /\ (HasUnknownKwarg(call) \/ HasUnknownName(call) \/ LacksRequired(call)))
    => ret.err # "" /\ ret.val = None /\ ret.built = 0

\* C5 witness: a positional mapping whose first name is known and buildable
\* and whose second name is unknown was refused.
C5_Witness ==
    /\ DirectBuild
    /\ Len(call.kwargs.v) = 0
    /\ IsMapping(call._attr_values)
    /\ Len(call._attr_values.v) = 2
    /\ DictHas(schema.val.subattr_schemata, call._attr_values.v[1].key)
    /\ build(DictGet(schema.val.subattr_schemata, call._attr_values.v[1].key),
             call._attr_values.v[1].val).err = ""
    /\ call._attr_values.v[2].key = Z_Z
    /\ ret.err = "ValueError"

\* C6: parse returns a tree only when every required name is in it, and
\* when the walk of the buffer ends without error and a required name is
\* missing it raises NetlinkError.
C6_RequiredAfterParse ==
    call.op = "parse" =>
        /\ ret.err = "" =>
              \A j \in 1..Len(schema.val.required_attrs) :
                  DictHas(ret.val.v, schema.val.required_attrs[j])
        /\ LET w == NlAttrSchema_walk(schema.val, call.data) IN
           (/\ w.err = ""
            /\ \E j \in 1..Len(schema.val.required_attrs) :
                  ~DictHas(w.val, schema.val.required_attrs[j]))
           => ret.err = "NetlinkError"

\* C6 witness: a buffer whose walk ended well with an entry collected, and
\* without the required one, was refused.
C6_Witness ==
    /\ call.op = "parse"
    /\ Len(schema.val.required_attrs) > 0
    /\ NlAttrSchema_walk(schema.val, call.data).err = ""
    /\ Len(NlAttrSchema_walk(schema.val, call.data).val) > 0
    /\ ret.err = "NetlinkError"
    /\ ret.msg = "Missing required attributes in parsed message"

RECURSIVE WalkFrom(_, _)
\* The TLVs of a well-formed buffer from offset off on, read from the
\* bytes alone; ok is false when a header is cut, a length is below the
\* header size or runs past the end.
WalkFrom(buf, off) ==
    IF off >= Len(buf) THEN [ok |-> off = Len(buf), tlvs |-> <<>>]
    ELSE IF off + NLA_HDRLEN > Len(buf) THEN [ok |-> FALSE, tlvs |-> <<>>]
    ELSE LET length == U16Value(SubSeq(buf, off + 1, off + 2))
             atype == U16Value(SubSeq(buf, off + 3, off + 4))
         IN  IF length < NLA_HDRLEN \/ off + align(length) > Len(buf)
             THEN [ok |-> FALSE, tlvs |-> <<>>]
             ELSE LET rest == WalkFrom(buf, off + align(length)) IN
                  [ok |-> rest.ok,
                   tlvs |-> <<[off |-> off, length |-> length, atype |-> atype,
                               payload |-> SubSeq(buf, off + NLA_HDRLEN + 1, off + length),
                               fill |-> SubSeq(buf, off + length + 1, off + align(length))]>>
                            \o rest.tlvs]

\* The symbolic names in the order the caller supplied them.
SuppliedNames(c) ==
    IF Truthy(c.kwargs)
    THEN [i \in 1..Len(c.kwargs.v) |-> DictGet(schema.val.name_mapping, c.kwargs.v[i].key)]
    ELSE DictKeys(c._attr_values.v)

\* The position at which a name is declared in the schema.
DeclaredAt(name) ==
    CHOOSE i \in 1..Len(schema.val.subattr_schemata) : schema.val.subattr_schemata[i].key = name

\* C7: the bytes a build call returns hold one TLV per supplied key, in the
\* order the caller supplied the keys.
C7_BuildOrder ==
    (call.op = "build" /\ ret.err = "") =>
        LET w == WalkFrom(ret.val, 0)
            names == SuppliedNames(call)
        IN  /\ w.ok
            /\ Len(w.tlvs) = Len(names)
            /\ \A i \in 1..Len(names) : w.tlvs[i].atype = DictGet(schema.val.ids, names[i])

\* C7 witness: two keys supplied against the order of their declaration,
\* once as keywords and once in a positional mapping.
C7_Witness ==
    /\ DirectBuild
    /\ ret.err = ""
    /\ Len(SuppliedNames(call)) = 2
    /\ DeclaredAt(SuppliedNames(call)[1]) > DeclaredAt(SuppliedNames(call)[2])
    /\ Truthy(call.kwargs)

RECURSIVE LayoutOK(_, _, _)
\* buf is the layout of value v under codec self: for an attribute set or
\* a list, one TLV per entry, each at a multiple of 4, its length field 4
\* plus the size of the child's payload, zero fill up to the next multiple
\* of 4, the whole a multiple of 4 long; and so on inside the payloads.
LayoutOK(self, v, buf) ==
    IF self.cls \notin {"NlAttrSchema", "NlAttrSchemaList"} THEN TRUE
    ELSE LET w == WalkFrom(buf, 0)
             vals == IF self.cls = "NlAttrSchema"
                     THEN [i \in 1..Len(v.v) |-> v.v[i].val]
                     ELSE PyIter(v).val
             child(i) == IF self.cls = "NlAttrSchema"
                         THEN DictGet(self.subattr_schemata, v.v[i].key)
                         ELSE self.subelem_schema
         IN  /\ w.ok
             /\ Len(buf) % 4 = 0
             /\ Len(w.tlvs) = Len(vals)
             /\ \A i \in 1..Len(vals) :
                   /\ w.tlvs[i].off % 4 = 0
                   /\ w.tlvs[i].length = NLA_HDRLEN + Len(build(child(i), vals[i]).val)
                   /\ \A j \in 1..Len(w.tlvs[i].fill) : w.tlvs[i].fill[j] = 0
                   /\ LayoutOK(child(i), vals[i], w.tlvs[i].payload)

\* C8: every buffer that build returns is laid out in 4-byte aligned TLVs
\* with exact length fields and zero fill, at every nesting level.
C8_Alignment ==
    (call.op = "build" /\ ret.err = "") => LayoutOK(schema.val, BuiltFrom(call), ret.val)

\* C8 witness: a built buffer with a payload that needs fill bytes and a
\* list of two records inside.
C8_Witness ==
    /\ DirectBuild
    /\ ret.err = ""
    /\ \E i \in 1..Len(WalkFrom(ret.val, 0).tlvs) :
          Len(WalkFrom(ret.val, 0).tlvs[i].fill) > 0
    /\ \E i \in 1..Len(BuiltFrom(call).v) :
          /\ BuiltFrom(call).v[i].val.k = "list"
          /\ Len(BuiltFrom(call).v[i].val.v) = 2
          /\ IsMapping(BuiltFrom(call).v[i].val.v[1])

\* The type id is the id of a child declared in the scope.
Declared(self, atype) ==
    \E j \in 1..Len(self.subattr_schemata) :
        /\ DictHas(self.ids, self.subattr_schemata[j].key)
        /\ DictGet(self.ids, self.subattr_schemata[j].key) = atype

\* The buffer made of the TLVs of data whose id is declared.
DeclaredPart(self, data) ==
    LET attrs == parse_generic_attributes(data).val
        keep(a) == Declared(self, a.atype)
    IN  Concat([i \in 1..Len(SelectSeq(attrs, keep)) |->
                    WireAttr(SelectSeq(attrs, keep)[i].atype, SelectSeq(attrs, keep)[i].data)])

\* C9 (as claimed): a TLV whose id no child of the scope has is skipped
\* without raising and without an entry: parse does what it does on the
\* buffer without these TLVs.
C9_SkipUnknown ==
    (/\ call.op = "parse"
     /\ parse_generic_attributes(call.data).err = ""
     /\ \E i \in 1..Len(parse_generic_attributes(call.data).val) :
           ~Declared(schema.val, parse_generic_attributes(call.data).val[i].atype))
    => ret = NlAttrSchema_parse(schema.val, DeclaredPart(schema.val, call.data))

RECURSIVE AllNamesHaveIds(_)
\* Every symbolic name of the codec tree is a key of its id table.
AllNamesHaveIds(self) ==
    CASE self.cls = "NlAttrSchema" ->
            \A i \in 1..Len(self.subattr_schemata) :
                /\ DictHas(self.ids, self.subattr_schemata[i].key)
                /\ AllNamesHaveIds(self.subattr_schemata[i].val)
      [] self.cls \in {"NlAttrSchemaList", "NlAttrSchemaArray"} ->
            AllNamesHaveIds(self.subelem_schema)
      [] OTHER -> TRUE

\* C10 (as claimed): a codec tree that from_spec returns has an id for
\* each of its symbolic names; a description with a name the id table
\* lacks does not compile.
C10_IdsChecked ==
    (call.op = "from_spec" /\ ret.err = "") => AllNamesHaveIds(ret.val)

----------------------------------------------------------------------------
(* Calls on single codecs: one call per behaviour, its inputs drawn from   *)
(* bounded sets.                                                           *)

\* Most characters of a symbolic name of the compiled scopes below.
MaxNameLen == 3

\* The characters of these names: "A", "_", "a".
NameChars == {65, UNDERSCORE, 97}

Names == UNION {[1..n -> NameChars] : n \in 1..MaxNameLen}

\* The scopes compiled: one field, or two fields of distinct names, the
\* second one with or without an explicit short name.
NameScopes ==
    {<<Field(n, "u8")>> : n \in Names}
    \cup {<<Field(q[1], "u8"), Field(q[2], "u8")>> : q \in {r \in Names \X Names : r[1] # r[2]}}
    \cup {<<Field(q[1], "u8"), Field(q[2], "u8") @@ [python_name |-> foo]>> :
             q \in {r \in Names \X Names : r[1] # r[2]}}

\* An id table with an id for each field, in order.
IdsOf(fields) == [i \in 1..Len(fields) |-> Item(fields[i].name, i)]

UnitInit ==
    /\ byteorder \in {"little", "big"}
    /\ schema = Raise("NotCompiled", "no schema yet")
    /\ call = NoCall
    /\ ret = Ok(None)
    /\ prev = NoPrev

\* NlAttrSchema.from_spec(fields, ids) for a scope of leaves
CompileNames ==
    /\ call.op = "none"
    /\ \E fields \in NameScopes :
          /\ call' = [op |-> "from_spec", spec |-> SList(fields), ids |-> IdsOf(fields)]
          /\ ret' = NlAttrSchema_from_spec(SList(fields), IdsOf(fields))
          /\ schema' = NlAttrSchema_from_spec(SList(fields), IdsOf(fields))
    /\ UNCHANGED <<byteorder, prev>>

\* The kinds of integer fields.
IntKinds == {"u8", "u16", "s16", "u32", "u64"}

\* Values around the ends of the ranges of the kinds; the last five are
\* 2^31, 2^32 - 1, 2^32, 2^64 - 1 and 2^64.
IntSamples ==
    {PyInt(v) : v \in {-32769, -32768, -1, 0, 255, 256, 32767, 32768, 65535, 65536,
                       2147483647}}
    \cup {PyWide(<<0, 0, 0, 128>>), PyWide(<<255, 255, 255, 255>>),
          PyWide(<<0, 0, 0, 0, 1>>),
          PyWide(<<255, 255, 255, 255, 255, 255, 255, 255>>),
          PyWide(<<0, 0, 0, 0, 0, 0, 0, 0, 1>>)}

\* NlAttrSchemaInt.from_spec({"type": kind}, ids).build(val)
IntBuild ==
    /\ call.op = "none"
    /\ \E kind \in IntKinds, val \in IntSamples :
          /\ call' = [op |-> "int_build", kind |-> kind, val |-> val]
          /\ ret' = NlAttrSchemaInt_build(
                        from_spec("NlAttrSchemaInt", SDict([type |-> SStr(kind)]), <<>>).val, val)
    /\ UNCHANGED <<byteorder, schema, prev>>

\* The longest array payload, in bytes: two u64 elements and one byte more.
MaxArrayBytes == 17

\* Payloads of every length up to MaxArrayBytes, in two fillings: bytes
\* that differ from place to place, and 0xff throughout.
ArrayPayloads ==
    {[i \in 1..n |-> (i * 37) % 256] : n \in 0..MaxArrayBytes}
    \cup {[i \in 1..n |-> 255] : n \in 0..MaxArrayBytes}

\* The array codec of elements of an integer kind.
ArrayOf(kind) ==
    from_spec("NlAttrSchemaArray",
              SDict([type |-> SStr("array"), subelem_type |-> SStr(kind)]), <<>>).val

\* NlAttrSchemaArray.from_spec({"type": "array", "subelem_type": kind}, ids).parse(data)
ArrayParse ==
    /\ call.op = "none"
    /\ \E kind \in IntKinds, data \in ArrayPayloads :
          /\ call' = [op |-> "array_parse", kind |-> kind, data |-> data]
          /\ ret' = NlAttrSchemaArray_parse(ArrayOf(kind), data)
    /\ UNCHANGED <<byteorder, schema, prev>>

\* The largest type id of an inner TLV of a list payload.
MaxListId == 3

\* Inner TLVs of a list payload: a type id from 0 (which no build emits) to
\* MaxListId around one or two bytes.
ListTlvs == {[atype |-> t, data |-> d] : t \in 0..MaxListId, d \in {<<1>>, <<2>>, <<1, 2>>}}

ListKinds == {"u8", "u16"}

\* The list codec of elements of an integer kind.
ListOf(kind) ==
    from_spec("NlAttrSchemaList",
              SDict([type |-> SStr("list"), subelem_type |-> SStr(kind)]), <<>>).val

\* NlAttrSchemaList.from_spec({"type": "list", "subelem_type": kind}, ids).parse(data),
\* data being the given TLVs one after the other.
ListParse ==
    /\ call.op = "none"
    /\ \E kind \in ListKinds, tlvs \in SeqsUpTo(ListTlvs, MaxTlvs) :
          LET data == Concat([i \in 1..Len(tlvs) |-> WireAttr(tlvs[i].atype, tlvs[i].data)]) IN
          /\ call' = [op |-> "list_parse", kind |-> kind, tlvs |-> tlvs, data |-> data]
          /\ ret' = NlAttrSchemaList_parse(ListOf(kind), data)
    /\ UNCHANGED <<byteorder, schema, prev>>

ListBuildKinds == {"u8", "u16", "str", "bytes"}

\* Elements handed to a list build: each is built by some of the kinds and
\* refused by others.
ListElems ==
    {PyInt(1), PyInt(300), PyStr(<<97>>), PyBytes(<<>>), PyBytes(<<1, 2, 3, 4, 5>>)}

\* NlAttrSchemaList.from_spec({"type": "list", "subelem_type": kind}, ids).build(elems)
ListBuild ==
    /\ call.op = "none"
    /\ \E kind \in ListBuildKinds, elems \in SeqsUpTo(ListElems, MaxElems) :
          /\ call' = [op |-> "list_build", kind |-> kind, elems |-> elems]
          /\ ret' = NlAttrSchemaList_build(ListOf(kind), PyList(elems))
    /\ UNCHANGED <<byteorder, schema, prev>>

\* The longest string and the longest string payload.
MaxStrLen == 3

\* NUL, two ASCII letters, and 0xC8, which is no ASCII character and, with
\* no continuation byte to follow it, no UTF-8 either.
StrChars == {0, 65, 97, 200}

StrCodec == from_spec("NlAttrSchemaStr", SDict([type |-> SStr("str")]), <<>>).val

\* NlAttrSchemaStr().build(val)
StrBuild ==
    /\ call.op = "none"
    /\ \E val \in SeqsUpTo(StrChars, MaxStrLen) :
          /\ call' = [op |-> "str_build", val |-> val]
          /\ ret' = NlAttrSchemaStr_build(StrCodec, PyStr(val))
    /\ UNCHANGED <<byteorder, schema, prev>>

\* NlAttrSchemaStr().parse(data)
StrParse ==
    /\ call.op = "none"
    /\ \E data \in SeqsUpTo(StrChars, MaxStrLen) :
          /\ call' = [op |-> "str_parse", data |-> data]
          /\ ret' = NlAttrSchemaStr_parse(StrCodec, data)
    /\ UNCHANGED <<byteorder, schema, prev>>

\* The most TLVs of a buffer handed to the parse of an attribute set: one
\* more than two, so that an id can come back after another one.
MaxWireTlvs == 3

\* Three u8 fields.
WireFields == <<Field(K_A, "u8"), Field(K_B, "u8"), Field(K_C, "u8")>>

\* The id tables of the scope: distinct ids, and K_A and K_B under one id.
WireIdTables == {IdsABC, <<Item(K_A, 1), Item(K_B, 1), Item(K_C, 3)>>}

\* The TLVs of the buffers: the ids of the tables and one of neither,
\* around one byte.
WireTlvs == {[atype |-> t, data |-> d] : t \in {1, 2, 3, UnknownId}, d \in {<<1>>, <<2>>}}

\* NlAttrSchema.from_spec(WireFields, ids).parse(data), data being the
\* given TLVs one after the other.
SetParse ==
    /\ call.op = "none"
    /\ \E ids \in WireIdTables, tlvs \in SeqsUpTo(WireTlvs, MaxWireTlvs) :
          LET data == Concat([i \in 1..Len(tlvs) |-> WireAttr(tlvs[i].atype, tlvs[i].data)]) IN
          /\ call' = [op |-> "set_parse", ids |-> ids, tlvs |-> tlvs, data |-> data]
          /\ schema' = NlAttrSchema_from_spec(SList(WireFields), ids)
          /\ ret' = NlAttrSchema_parse(NlAttrSchema_from_spec(SList(WireFields), ids).val, data)
    /\ UNCHANGED <<byteorder, prev>>

UnitNext ==
    \/ CompileNames
    \/ IntBuild
    \/ ArrayParse
    \/ ListParse
    \/ ListBuild
    \/ StrBuild
    \/ StrParse
    \/ SetParse

UnitSpec == UnitInit /\ [][UnitNext]_vars

----------------------------------------------------------------------------
(* parse_generic_attributes step by step: call holds the frame of the walk *)
(* (data, index, attributes), pc says whether the loop still runs, and seen *)
(* lists the offset and length field of each header read so far.           *)

\* A loop body without the assert statement: the progress property of the
\* walk must tell it from the loop body of parse_generic_attributes.
pga_step_unasserted(data, index, attributes) ==
    LET hdr == Slice(data, index, index + NLA_HDRLEN) IN
    IF Len(hdr) # NLA_HDRLEN
    THEN [pc |-> "raised", index |-> index, attributes |-> attributes, length |-> -1,
          ret |-> Raise("struct.error", "unpack requires a buffer of 4 bytes")]
    ELSE LET nla_len == U16Value(SubSeq(hdr, 1, 2))
             nla_type == U16Value(SubSeq(hdr, 3, 4))
             nla_data == Slice(data, index + align(NLA_HDRLEN), index + nla_len)
         IN  [pc |-> "loop", index |-> index + align(nla_len), length |-> nla_len,
              attributes |-> Append(attributes, GNLAttribute(nla_len, nla_type, nla_data)),
              ret |-> Ok(None)]

\* One pass through the body of "while index < len(data)": the header is
\* unpacked, the payload sliced, index advanced, then nla_len asserted and
\* the attribute appended.
pga_step(data, index, attributes) ==
    LET hdr == Slice(data, index, index + NLA_HDRLEN) IN
    IF Len(hdr) # NLA_HDRLEN
    THEN [pc |-> "raised", index |-> index, attributes |-> attributes, length |-> -1,
          ret |-> Raise("struct.error", "unpack requires a buffer of 4 bytes")]
    ELSE LET nla_len == U16Value(SubSeq(hdr, 1, 2))
             nla_type == U16Value(SubSeq(hdr, 3, 4))
             nla_data == Slice(data, index + align(NLA_HDRLEN), index + nla_len)
         IN  IF nla_len = 0
             THEN [pc |-> "raised", index |-> index + align(nla_len),
                   attributes |-> attributes, length |-> nla_len,
                   ret |-> Raise("AssertionError", "assert nla_len")]
             ELSE [pc |-> "loop", index |-> index + align(nla_len), length |-> nla_len,
                   attributes |-> Append(attributes, GNLAttribute(nla_len, nla_type, nla_data)),
                   ret |-> Ok(None)]

\* The length fields of the headers the buffers are made of.
SplitLengths == {0, 1, 3, 4, 5, 8, 12}

\* The pieces of the buffers: a header with each length field, followed by
\* 0, 1 or 4 bytes, and the pieces of 1, 2 and 3 bytes that are no header.
SplitPieces ==
    {U16Bytes(len) \o U16Bytes(1) \o [i \in 1..p |-> 7] : len \in SplitLengths, p \in {0, 1, 4}}
    \cup {<<4>>, U16Bytes(4), U16Bytes(4) \o <<1>>}

SplitBuffers == {Concat(q) : q \in SeqsUpTo(SplitPieces, MaxTlvs)}

\* parse_generic_attributes(data) is entered
SplitCall ==
    /\ call.op = "none"
    /\ \E data \in SplitBuffers :
          call' = [op |-> "split", data |-> data, index |-> 0, attributes |-> <<>>,
                   pc |-> "loop", seen |-> <<>>]
    /\ UNCHANGED <<byteorder, schema, ret, prev>>

\* one pass through the loop body
SplitStep ==
    /\ call.op = "split"
    /\ call.pc = "loop"
    /\ call.index < Len(call.data)
    /\ LET n == pga_step(call.data, call.index, call.attributes) IN
       /\ call' = [call EXCEPT !.pc = n.pc, !.index = n.index, !.attributes = n.attributes,
                               !.seen = IF n.length < 0 THEN @
                                        ELSE Append(@, [off |-> call.index,
                                                        length |-> n.length])]
       /\ ret' = n.ret
    /\ UNCHANGED <<byteorder, schema, prev>>

\* the loop condition fails: return attributes
SplitReturn ==
    /\ call.op = "split"
    /\ call.pc = "loop"
    /\ ~(call.index < Len(call.data))
    /\ call' = [call EXCEPT !.pc = "returned"]
    /\ ret' = Ok(PyList(call.attributes))
    /\ UNCHANGED <<byteorder, schema, prev>>

SplitNext ==
    \/ SplitCall
    \/ SplitStep
    \/ SplitReturn

\* The interpreter keeps executing a call it has entered: a pass through
\* the loop that can be made is made, and so is the return.
SplitSpec == UnitInit /\ [][SplitNext]_vars /\ WF_vars(SplitStep \/ SplitReturn)

\* The walk step by step ends as pga_loop does.
SplitAgrees ==
    (call.op = "split" /\ call.pc # "loop") =>
        LET r == parse_generic_attributes(call.data) IN
        IF r.err = "" THEN ret = Ok(PyList(r.val)) ELSE ret = r

----------------------------------------------------------------------------
(* C11 .. C20 *)

\* The fields of the scope that the last from_spec call compiled.
ScopeFields == call.spec.l

\* The scope's symbolic names are pairwise distinct and no field carries an
\* explicit short name.
PlainScope ==
    /\ \A i, j \in 1..Len(ScopeFields) : i # j => ScopeFields[i].name # ScopeFields[j].name
    /\ \A i \in 1..Len(ScopeFields) : "python_name" \notin DOMAIN ScopeFields[i]

\* C11 (as claimed): a compiled scope of pairwise distinct symbolic names
\* without explicit short names has pairwise distinct derived short names:
\* its short-name map has one entry per field, mapped to the field's
\* symbolic name.
C11_ShortNamesDistinct ==
    (call.op = "from_spec" /\ ret.err = "" /\ PlainScope) =>
        /\ Len(ret.val.name_mapping) = Len(ScopeFields)
        /\ \A i \in 1..Len(ScopeFields) :
              \E j \in 1..Len(ret.val.name_mapping) :
                  ret.val.name_mapping[j].val = ScopeFields[i].name

\* The derivation rule says nothing of a name when the siblings' longest
\* common prefix holds an underscore, does not end in one, and the name has
\* no later underscore to extend the prefix to.
RuleApplies(name, names) ==
    LET cp == commonprefix(names) IN
    \/ \A k \in 1..Len(cp) : cp[k] # UNDERSCORE
    \/ cp[Len(cp)] = UNDERSCORE
    \/ \E k \in (Len(cp) + 1)..Len(name) : name[k] = UNDERSCORE

\* The short name the derivation rule gives: the whole lowercase name when
\* the siblings have no common prefix that ends in an underscore; else the
\* lowercase of the name after the longest common prefix, extended to the
\* name's next underscore when it does not end in one.
DerivedShortName(name, names) ==
    LET cp == commonprefix(names)
        later == {k \in (Len(cp) + 1)..Len(name) : name[k] = UNDERSCORE}
    IN  IF \A k \in 1..Len(cp) : cp[k] # UNDERSCORE THEN lower(name)
        ELSE IF cp[Len(cp)] = UNDERSCORE THEN lower(Slice(name, Len(cp), Len(name)))
        ELSE lower(Slice(name, CHOOSE k \in later : \A m \in later : k <= m, Len(name)))

\* C12 (as claimed): a field without an explicit short name gets the short
\* name of the derivation rule.
C12_ShortNameRule ==
    (call.op = "from_spec" /\ ret.err = "") =>
        \A i \in 1..Len(ScopeFields) :
            LET names == [k \in 1..Len(ScopeFields) |-> ScopeFields[k].name] IN
            ("python_name" \notin DOMAIN ScopeFields[i] /\ RuleApplies(ScopeFields[i].name, names))
            => /\ DictHas(ret.val.name_mapping, DerivedShortName(ScopeFields[i].name, names))
               /\ DictGet(ret.val.name_mapping, DerivedShortName(ScopeFields[i].name, names))
                    = ScopeFields[i].name

RECURSIVE DualView(_)
\* In the value tree x, at every attribute set: each short name whose
\* symbolic name is present reads, as an attribute, the value stored under
\* the symbolic name; iteration yields the symbolic names present and the
\* size is their count.
DualView(x) ==
    CASE x.k = "NlAttrSet" ->
            /\ \A j \in 1..Len(x.name_mapping) :
                  DictHas(x.v, x.name_mapping[j].val) =>
                      LET byname == getattr(x, x.name_mapping[j].key)
                          bykey == NlAttrSet_getitem(x, x.name_mapping[j].val)
                      IN  /\ byname.err = ""
                          /\ byname.val.k = bykey.val.k
                          /\ byname.val = bykey.val
            /\ NlAttrSet_len(x) = Len(NlAttrSet_iter(x))
            /\ \A i \in 1..Len(x.v) : NlAttrSet_iter(x)[i] = x.v[i].key /\ DualView(x.v[i].val)
      [] x.k = "list" -> \A i \in 1..Len(x.v) : DualView(x.v[i])
      [] OTHER -> TRUE

\* C13 (as claimed): in every value tree that parse returns, access by a
\* short name gives what indexed access by its symbolic name gives, at all
\* levels, and iteration and size go over the symbolic names present.
C13_DualView ==
    (call.op = "parse" /\ ret.err = "") => DualView(ret.val)

\* The width in bytes that each integer kind declares.
IntWidth == [u8 |-> 1, u16 |-> 2, s16 |-> 2, u32 |-> 4, u64 |-> 8]

\* The value is representable in the width and signedness of the kind.
InRange(kind, val) ==
    IF val.k = "wide" THEN kind # "s16" /\ Len(val.v) <= IntWidth[kind]
    ELSE CASE kind = "u8" -> val.v \in 0..255
           [] kind = "u16" -> val.v \in 0..65535
           [] kind = "s16" -> val.v \in -32768..32767
           [] OTHER -> val.v >= 0

\* C14: the build of an integer codec raises for every value outside the
\* range of its kind and returns no bytes then; for every value in range
\* the payload is as wide as the kind declares.
C14_IntRange ==
    call.op = "int_build" =>
        IF InRange(call.kind, call.val)
        THEN ret.err = "" /\ Len(ret.val) = IntWidth[call.kind]
        ELSE ret.err # "" /\ ret.val = None

\* C14 witness: 2^32 was refused by the u32 codec.
C14_Witness ==
    /\ call.op = "int_build"
    /\ call.kind = "u32"
    /\ call.val = PyWide(<<0, 0, 0, 0, 1>>)
    /\ ret.err = "struct.error"

\* The walk of the splitter has returned.
SplitReturned == call.op = "split" /\ call.pc = "returned"

\* C15 (as claimed): the splitter returns only when no header it read had a
\* length field of 0, one below the header size, or one whose aligned
\* advance goes past the end of the buffer; then the walk ended with its
\* offset at the buffer's length and every payload lies inside the buffer.
C15_SplitterRejects ==
    SplitReturned =>
        /\ \A i \in 1..Len(call.seen) :
              /\ call.seen[i].length >= NLA_HDRLEN
              /\ call.seen[i].off + align(call.seen[i].length) <= Len(call.data)
              /\ call.seen[i].off + call.seen[i].length <= Len(call.data)
        /\ call.index = Len(call.data)

\* C16: the walk of the splitter ends on every buffer, by returning or by
\* raising, and every pass through the loop that does not raise moves the
\* offset forward.
C16_SplitterTerminates ==
    /\ (call.op = "split") ~> (call.op = "split" /\ call.pc \in {"returned", "raised"})
    /\ [][SplitStep => (call'.pc = "raised" \/ call'.index > call.index)]_vars

\* C16 witness: after a pass that read a header, a header with the length
\* field 0 ended the walk by the assertion.
C16_Witness ==
    /\ call.op = "split"
    /\ call.pc = "raised"
    /\ Len(call.attributes) > 0
    /\ call.seen[Len(call.seen)].length = 0
    /\ ret.err = "AssertionError"

\* The TLV at position i of attrs is one of a child of the scope and the
\* child's parse of its payload fails.
ChildFails(self, attrs, i) ==
    /\ find_attr(self, attrs[i].atype).err = ""
    /\ find_attr(self, attrs[i].atype).val # 0
    /\ parse(self.subattr_schemata[find_attr(self, attrs[i].atype).val].val,
             attrs[i].data).err # ""

\* The walk goes past the TLV at position j of attrs.
ChildPasses(self, attrs, j) ==
    /\ find_attr(self, attrs[j].atype).err = ""
    /\ ~ChildFails(self, attrs, j)

\* C17 (as claimed): when parse ends because the parse of a child failed,
\* the error is a NetlinkError that names the child of the scope whose
\* payload was being parsed, whatever the child raised.
C17_ChildErrorNamed ==
    (call.op = "parse" /\ parse_generic_attributes(call.data).err = "") =>
        LET attrs == parse_generic_attributes(call.data).val IN
        \A i \in 1..Len(attrs) :
            (ChildFails(schema.val, attrs, i)
             /\ \A j \in 1..(i - 1) : ChildPasses(schema.val, attrs, j))
            => /\ ret.err = "NetlinkError"
               /\ ret.attr = schema.val.subattr_schemata[
                                 find_attr(schema.val, attrs[i].atype).val].key

\* C18: parsing an array payload of n bytes with elements of k bytes fails
\* when k does not divide n; otherwise it returns n / k elements, the i-th
\* being the element codec's parse of bytes [i*k, (i+1)*k).
C18_ArrayChunks ==
    call.op = "array_parse" =>
        LET k == IntWidth[call.kind]
            n == Len(call.data)
            elem == ArrayOf(call.kind).subelem_schema
        IN  IF n % k # 0 THEN ret.err # ""
            ELSE /\ ret.err = ""
                 /\ ret.val.k = "list"
                 /\ Len(ret.val.v) = n \div k
                 /\ \A i \in 0..(n \div k) - 1 :
                        LET e == parse(elem, SubSeq(call.data, i * k + 1, (i + 1) * k)) IN
                        e.err = "" /\ ret.val.v[i + 1] = e.val

\* A payload of two whole elements and a short third one was refused.
C18_Witness ==
    /\ call.op = "array_parse"
    /\ Len(call.data) > 2 * IntWidth[call.kind]
    /\ Len(call.data) % IntWidth[call.kind] # 0
    /\ ret.err = "struct.error"

\* Every inner TLV of the call's payload is one the element codec parses.
ElementsParse ==
    \A i \in 1..Len(call.tlvs) :
        parse(ListOf(call.kind).subelem_schema, call.tlvs[i].data).err = ""

\* C19: the list parse returns a list as long as the largest type id seen;
\* for every TLV seen, with type id t, position t - 1 (from 0) holds the
\* element codec's parse of that TLV's payload; every position no TLV names
\* holds None; the empty payload gives the empty list.
C19_ListPositions ==
    (call.op = "list_parse" /\ ElementsParse) =>
        LET tlvs == call.tlvs
            elem == ListOf(call.kind).subelem_schema
        IN  IF Len(tlvs) = 0 THEN ret = Ok(PyList(<<>>))
            ELSE /\ ret.err = ""
                 /\ ret.val.k = "list"
                 /\ Len(ret.val.v) = Max({tlvs[i].atype : i \in 1..Len(tlvs)})
                 /\ \A i \in 1..Len(tlvs) :
                        /\ tlvs[i].atype \in 1..Len(ret.val.v)
                        /\ ret.val.v[tlvs[i].atype] = parse(elem, tlvs[i].data).val
                 /\ \A pos \in 1..Len(ret.val.v) :
                        (\A i \in 1..Len(tlvs) : tlvs[i].atype # pos) => ret.val.v[pos] = None

\* Every element of the call's input is one the element codec builds.
ElementsBuild ==
    \A i \in 1..Len(call.elems) :
        build(ListOf(call.kind).subelem_schema, call.elems[i]).err = ""

\* C20: the list build of N elements emits exactly N inner TLVs, with type
\* ids 1, 2, ..., N in that order, the TLV with type id i + 1 wrapping the
\* element codec's build of the element at position i (from 0).
C20_ListBuildIds ==
    (call.op = "list_build" /\ ElementsBuild) =>
        /\ ret.err = ""
        /\ LET w == WalkFrom(ret.val, 0)
                elem == ListOf(call.kind).subelem_schema
            IN  /\ w.ok
                /\ Len(w.tlvs) = Len(call.elems)
                /\ \A i \in 1..Len(call.elems) :
                       /\ w.tlvs[i].atype = i
                       /\ w.tlvs[i].payload = build(elem, call.elems[i]).val

\* Two different elements, the first with an empty build, were built into
\* a list payload.
C20_Witness ==
    /\ call.op = "list_build"
    /\ call.kind = "bytes"
    /\ call.elems = <<PyBytes(<<>>), PyBytes(<<1, 2, 3, 4, 5>>)>>
    /\ ret.err = ""
    /\ Len(ret.val) = 16

----------------------------------------------------------------------------
(* Claims C21 .. C22 *)

IsAscii(b) == \A i \in 1..Len(b) : b[i] <= 127

\* C21: the string build of s is the ASCII bytes of s and one NUL byte;
\* the string parse of an ASCII payload p is p decoded, less one trailing
\* NUL when p ends in NUL, and p decoded unchanged otherwise, the empty
\* payload included; so the parse of the build of s is s.
C21_StrCodec ==
    /\ (call.op = "str_build" /\ IsAscii(call.val)) =>
           /\ ret.err = ""
           /\ ret.val = call.val \o <<0>>
           /\ NlAttrSchemaStr_parse(StrCodec, ret.val) = Ok(PyStr(call.val))
    /\ (call.op = "str_parse" /\ IsAscii(call.data)) =>
           /\ ret.err = ""
           /\ ret.val = PyStr(IF Len(call.data) > 0 /\ call.data[Len(call.data)] = 0
                              THEN SubSeq(call.data, 1, Len(call.data) - 1)
                              ELSE call.data)

\* The ids the call's table gives to a declared field.
KnownIds == {call.ids[i].val : i \in 1..Len(call.ids)}

\* The places of the call's TLVs at which a known id appears for the first
\* time.
FirstAt ==
    {i \in 1..Len(call.tlvs) :
        /\ call.tlvs[i].atype \in KnownIds
        /\ \A j \in 1..(i - 1) : call.tlvs[j].atype # call.tlvs[i].atype}

\* The k-th place of FirstAt, in wire order.
FirstPlace(k) == CHOOSE i \in FirstAt : Cardinality({j \in FirstAt : j < i}) = k - 1

\* The last place at which the id t appears.
LastPlace(t) == Max({i \in 1..Len(call.tlvs) : call.tlvs[i].atype = t})

\* The first field, in the order of the description, that the table gives
\* the id t.
FieldOf(t) ==
    LET hits == {i \in 1..Len(WireFields) : DictGet(call.ids, WireFields[i].name) = t}
    IN  CHOOSE i \in hits : \A j \in hits : i <= j

\* C22: the tree a parse returns lists its entries in the order in which
\* their type ids first appear on the wire; an id that appears more than
\* once has one entry, at the place of its first appearance, holding the
\* parse of its last appearance.
C22_WireOrder ==
    (call.op = "set_parse" /\ ret.err = "") =>
        /\ ret.val.k = "NlAttrSet"
        /\ Len(ret.val.v) = Cardinality(FirstAt)
        /\ \A k \in 1..Cardinality(FirstAt) :
               LET t == call.tlvs[FirstPlace(k)].atype
                   f == FieldOf(t)
               IN  /\ ret.val.v[k].key = WireFields[f].name
                   /\ ret.val.v[k].val =
                          parse(schema.val.subattr_schemata[f].val,
                                call.tlvs[LastPlace(t)].data).val

\* An id came back with another payload after a second id: the first id's
\* entry is first and holds the later payload.
C22_Witness ==
    /\ call.op = "set_parse"
    /\ call.ids = IdsABC
    /\ call.tlvs = <<[atype |-> 1, data |-> <<1>>], [atype |-> 2, data |-> <<1>>],
                     [atype |-> 1, data |-> <<2>>]>>
    /\ ret.err = ""
    /\ ret.val.v = <<Item(K_A, PyInt(2)), Item(K_B, PyInt(1))>>

====
